---- MODULE Spec2Model ----
(***************************************************************************)
(* State-synchronisation core of MonolithLauncher.                         *)
(*                                                                         *)
(*   LauncherProvider (launcher-provider.tsx): log channels, status,       *)
(*     progress tracker, event subscription effect.                        *)
(*   logs.ts (legacy DOM launcher): the three log arrays.                  *)
(*   OverviewTabs (overview-tabs.tsx): instance-reset effect, telemetry    *)
(*     poll effect, Modrinth search / install / uninstall handlers.        *)
(*                                                                         *)
(* Text is modelled as a sequence of tokens: "" is <<>>, template-string   *)
(* concatenation is \o.  A nullable value is <<>> (null) or <<v>>.         *)
(* A log line is the timestamp followed by the tokens of its message.      *)
(* Every handler runs to its next await as one atomic step (single         *)
(* threaded event loop); what follows an await is a separate step taken    *)
(* when the awaited command-channel call settles.                          *)
(***************************************************************************)
EXTENDS Integers, Sequences, FiniteSets, TLC

\* ---------------------------------------------------------------- bounds
MaxAppends == 2      \* log steps (appends, clock ticks) explored per run
MaxEvents == 2       \* status and detail lines the progress tracker adds per run
MaxStatus == 2       \* status lines and memory samples of the instance view per run
MaxLoads == 1        \* load_config calls in flight at the same time
MaxTasks == 2        \* async handler invocations suspended at the same time
MaxPolls == 2        \* metrics calls in flight at the same time

\* ------------------------------------------------------ program constants
LogLimit == 400
LegacyLogLimit == 400
DetailLimit == 80
HistoryLimit == 80

Instances == {"a", "b"}
Streams == {"stdout", "stderr"}
Topics == {"instance:log", "install:progress", "install:done",
           "install:error", "launch:started", "launch:error",
           "microsoft:code", "microsoft:error"}

None == <<>>
Some(x) == <<x>>

VARIABLES
  now,            \* wall clock read by timestamp()
  fuel,           \* lines the run may still add to a log or history (exploration bound)
  logs,           \* LauncherProvider: logs state {launcher, game, instances}
  status,         \* LauncherProvider: status state
  logHist,        \* history: every line ever appended to each provider buffer
  legacy,         \* logs.ts: state.launcherLogs / gameLogs / instanceLogs
  legacyHist,     \* history: every line ever appended to each legacy array
  handle,         \* subscription effect: the unlistenX closure variables
  subscribed,     \* event channel: topics with a registered listener
  unlistenCalls,  \* how often each topic's unsubscribe handle was invoked
  tornDown,       \* the subscription effect's cleanup has run
  heldAtTeardown, \* history: topics whose handle was held when cleanup ran
  installProgress,\* LauncherProvider: the live progress snapshot, or null
  installing,     \* LauncherProvider: installing flag
  installDetails, \* LauncherProvider: rolling detail log
  lastEvent,      \* history: the event handled last, its payload, the tracker before it
  loading,        \* LauncherProvider: loading flag of refreshConfig
  config,         \* LauncherProvider: configuration snapshot, or null
  configLoads,    \* load_config calls in flight
  instanceId,     \* OverviewTabs: id of the instance prop
  activeTab,      \* OverviewTabs: activeTab state
  modrinthDialogKind, \* OverviewTabs: kind of the open Modrinth dialog, or null
  modrinthBusy,   \* OverviewTabs: busy map, key -> "install" | "uninstall"
  busyOwner,      \* history: the task that inserted each busy entry
  lastEnd,        \* history: how the install or uninstall that ended last ended
  modrinthState,  \* OverviewTabs: search state per kind
  searchLog,      \* history: per kind, the search issued last, its answer, and how
                  \* the search answered last since then ended
  tasks,          \* async handler invocations suspended at an await
  isRunning,      \* OverviewTabs: running flag
  memoryUsage,    \* OverviewTabs: last memory reading, or null
  memoryHistory,  \* OverviewTabs: rolling memory history
  timers,         \* window.setInterval timers of the telemetry effect
  polls,          \* get_instance_metrics calls in flight
  lastPoll,       \* history: the outcome of the metrics call settled last, or discarded
  endedSubs       \* OverviewTabs: per instance id, the launch:ended listeners made for it

logVars == <<logs, status, logHist>>
legacyVars == <<legacy, legacyHist>>
subVars == <<handle, subscribed, unlistenCalls, tornDown, heldAtTeardown>>
trackerVars == <<installProgress, installing, installDetails, lastEvent>>
configVars == <<loading, config, configLoads>>
busyVars == <<modrinthDialogKind, modrinthBusy, busyOwner, lastEnd, tasks>>
searchVars == <<modrinthState, searchLog>>
telemetryVars ==
  <<isRunning, memoryUsage, memoryHistory, timers, polls, lastPoll, endedSubs>>
viewVars == <<instanceId, activeTab, busyVars, searchVars, telemetryVars>>
vars == <<now, fuel, logVars, legacyVars, subVars, trackerVars, configVars, viewVars>>

\* ------------------------------------------------------------- ring buffer
\* Array.prototype.slice(-n): the last n elements (all of them if fewer).
SliceLast(s, n) ==
  IF Len(s) > n THEN SubSeq(s, Len(s) - n + 1, Len(s)) ELSE s

\* a cap that keeps the oldest lines and drops what arrives beyond them
Bounded_OldestKept(next, limit) == IF Len(next) > limit THEN SubSeq(next, 1, limit) ELSE next

\* next.length > 400 ? next.slice(-400) : next
Bounded(next, limit) == IF Len(next) > limit THEN SliceLast(next, limit) ELSE next

\* timestamp(): the wall clock formatted to seconds
timestamp == now

\* `[${timestamp()}] ${message}`
FormatLine(message) == <<timestamp>> \o message

\* ------------------------------------------------ LauncherProvider: logs
\* Each operator is the functional update handed to setLogs.
appendLauncherLog(L, message) ==
  IF message = <<>> THEN L
  ELSE [L EXCEPT !.launcher = Bounded(Append(@, FormatLine(message)), LogLimit)]

appendGameLog(L, message) ==
  IF message = <<>> THEN L
  ELSE [L EXCEPT !.game = Bounded(Append(@, FormatLine(message)), LogLimit)]

\* instances is modelled as a total map; a missing key reads as [] in the
\* source (prev.instances[instanceId] || []).
appendInstanceLog(L, id, message) ==
  IF id = "" \/ message = <<>> THEN L
  ELSE [L EXCEPT !.instances[id] =
          Bounded(Append(@, FormatLine(message)), LogLimit)]

clearInstanceLogs(L, id) ==
  IF id = "" THEN L ELSE [L EXCEPT !.instances[id] = <<>>]

clearLauncherLogs(L) == [L EXCEPT !.launcher = <<>>, !.game = <<>>]

\* History counterparts: what was appended, never truncated.
HistLauncher(H, message) ==
  IF message = <<>> THEN H ELSE [H EXCEPT !.launcher = Append(@, FormatLine(message))]

HistGame(H, message) ==
  IF message = <<>> THEN H ELSE [H EXCEPT !.game = Append(@, FormatLine(message))]

HistInstance(H, id, message) ==
  IF id = "" \/ message = <<>> THEN H
  ELSE [H EXCEPT !.instances[id] = Append(@, FormatLine(message))]

\* setStatus(message, variant): setStatusState, appendLauncherLog (the
\* toast is presentation).  S is the record of status, logs and history.
setStatus(S, message) ==
  [status |-> message,
   logs |-> appendLauncherLog(S.logs, message),
   hist |-> HistLauncher(S.hist, message)]

RECURSIVE setStatusAll(_, _)
setStatusAll(S, messages) ==
  IF messages = <<>> THEN S
  ELSE setStatusAll(setStatus(S, Head(messages)), Tail(messages))

\* a handler step that calls setStatus for each of the messages, in order
Emit(messages) ==
  LET S == setStatusAll([status |-> status, logs |-> logs, hist |-> logHist], messages)
  IN /\ status' = S.status
     /\ logs' = S.logs
     /\ logHist' = S.hist

\* ------------------------------------------------------- initial states
EmptyLogs == [launcher |-> <<>>, game |-> <<>>, instances |-> [i \in Instances |-> <<>>]]

\* n earlier lines, numbered in arrival order, stamped at second 0
Fill(n) == [k \in 1..n |-> <<0, ToString(k)>>]

InitSubsPending ==
  /\ handle = [t \in Topics |-> FALSE]
  /\ subscribed = [t \in Topics |-> FALSE]
  /\ unlistenCalls = [t \in Topics |-> 0]
  /\ tornDown = FALSE
  /\ heldAtTeardown = {}

\* the provider once every listen() promise has resolved
InitSubsResolved ==
  /\ handle = [t \in Topics |-> TRUE]
  /\ subscribed = [t \in Topics |-> TRUE]
  /\ unlistenCalls = [t \in Topics |-> 0]
  /\ tornDown = FALSE
  /\ heldAtTeardown = {}

InitTracker ==
  /\ installProgress = None
  /\ installing = FALSE
  /\ installDetails = <<>>
  /\ lastEvent = [topic |-> "", wasInstalling |-> FALSE, hadDetails |-> 0, payload |-> None]

\* the provider after its first refreshConfig has completed
InitConfig ==
  /\ loading = FALSE
  /\ config = Some("cfg")
  /\ configLoads = 0

InitLogsEmpty ==
  /\ logs = EmptyLogs
  /\ logHist = EmptyLogs
  /\ status = <<>>
  /\ legacy = EmptyLogs
  /\ legacyHist = EmptyLogs

\* ---------------------------------------------------------------- clock
\* a second passes
Tick ==
  /\ fuel > 0
  /\ now' = now + 1
  /\ fuel' = fuel - 1
  /\ UNCHANGED <<logVars, legacyVars, subVars, trackerVars, configVars, viewVars>>

\* ------------------------------------------- LauncherProvider log actions
\* A fresh message for a buffer: the ordinal of the line in that buffer.
FreshFor(hist) == <<ToString(Len(hist) + 1)>>

SetStatusCall ==
  /\ fuel > 0
  /\ \E message \in {<<>>, FreshFor(logHist.launcher)} :
       Emit(<<message>>)
  /\ fuel' = fuel - 1
  /\ UNCHANGED <<now, legacyVars, subVars, trackerVars, configVars, viewVars>>

AppendInstanceLogCall ==
  /\ fuel > 0
  /\ \E id \in Instances \cup {""} :
       \E message \in {<<>>} \cup
            (IF id = "" THEN {<<"1">>}
             ELSE {FreshFor(logHist.instances[id])}) :
         /\ logs' = appendInstanceLog(logs, id, message)
         /\ logHist' = HistInstance(logHist, id, message)
  /\ fuel' = fuel - 1
  /\ UNCHANGED <<now, status, legacyVars, subVars, trackerVars, configVars, viewVars>>

\* a listener that never marks a line
StreamPrefix_Never(stream) == <<>>

\* const prefix = stream === "stderr" ? "[stderr] " : ""
StreamPrefix(stream) == IF stream = "stderr" THEN <<"[stderr] ">> ELSE <<>>

\* listen("instance:log", ...)
OnInstanceLog ==
  /\ subscribed["instance:log"]
  /\ fuel > 0
  /\ \E id \in Instances \cup {""}, stream \in Streams :
       \E line \in {<<>>} \cup
            (IF id = "" THEN {<<"1">>}
             ELSE {FreshFor(logHist.instances[id])}) :
         /\ IF id = "" \/ line = <<>>
            THEN UNCHANGED <<logs, logHist>>
            ELSE LET prefix == StreamPrefix(stream)
                 IN /\ logs' = appendGameLog(
                                 appendInstanceLog(logs, id, prefix \o line),
                                 prefix \o line)
                    /\ logHist' = HistGame(
                                    HistInstance(logHist, id, prefix \o line),
                                    prefix \o line)
         /\ lastEvent' =
              [topic |-> "instance:log", wasInstalling |-> installing,
               hadDetails |-> Len(installDetails),
               payload |-> Some([instance_id |-> id, line |-> line, stream |-> stream])]
  /\ fuel' = fuel - 1
  /\ UNCHANGED <<installProgress, installing, installDetails>>
  /\ UNCHANGED <<now, status, legacyVars, subVars, configVars, viewVars>>

ClearInstanceLogsCall ==
  /\ \E id \in Instances :
       /\ logs.instances[id] # <<>>
       /\ logs' = clearInstanceLogs(logs, id)
       /\ logHist' = [logHist EXCEPT !.instances[id] = <<>>]
  /\ UNCHANGED <<now, fuel, status, legacyVars, subVars, trackerVars, configVars, viewVars>>

ClearLauncherLogsCall ==
  /\ logs.launcher # <<>> \/ logs.game # <<>>
  /\ logs' = clearLauncherLogs(logs)
  /\ logHist' = [logHist EXCEPT !.launcher = <<>>, !.game = <<>>]
  /\ UNCHANGED <<now, fuel, status, legacyVars, subVars, trackerVars, configVars, viewVars>>

\* ------------------------------------------------------- logs.ts (legacy)
legacy_appendLauncherLog(A, message) ==
  IF message = <<>> THEN A
  ELSE [A EXCEPT !.launcher = Bounded(Append(@, FormatLine(message)), LegacyLogLimit)]

legacy_appendGameLog(A, message) ==
  IF message = <<>> THEN A
  ELSE [A EXCEPT !.game = Bounded(Append(@, FormatLine(message)), LegacyLogLimit)]

legacy_appendInstanceLog(A, id, message) ==
  IF message = <<>> \/ id = "" THEN A
  ELSE [A EXCEPT !.instances[id] =
          Bounded(Append(@, FormatLine(message)), LegacyLogLimit)]

\* setStatus of logs.ts (the DOM text nodes are presentation)
LegacySetStatus ==
  /\ fuel > 0
  /\ \E message \in {<<>>, FreshFor(legacyHist.launcher)} :
       /\ legacy' = legacy_appendLauncherLog(legacy, message)
       /\ legacyHist' = HistLauncher(legacyHist, message)
  /\ fuel' = fuel - 1
  /\ UNCHANGED <<now, logVars, subVars, trackerVars, configVars, viewVars>>

LegacyAppendGameLog ==
  /\ fuel > 0
  /\ \E message \in {<<>>, FreshFor(legacyHist.game)} :
       /\ legacy' = legacy_appendGameLog(legacy, message)
       /\ legacyHist' = HistGame(legacyHist, message)
  /\ fuel' = fuel - 1
  /\ UNCHANGED <<now, logVars, subVars, trackerVars, configVars, viewVars>>

LegacyAppendInstanceLog ==
  /\ fuel > 0
  /\ \E id \in Instances \cup {""} :
       \E message \in {<<>>} \cup
            (IF id = "" THEN {<<"1">>}
             ELSE {FreshFor(legacyHist.instances[id])}) :
         /\ legacy' = legacy_appendInstanceLog(legacy, id, message)
         /\ legacyHist' = HistInstance(legacyHist, id, message)
  /\ fuel' = fuel - 1
  /\ UNCHANGED <<now, logVars, subVars, trackerVars, configVars, viewVars>>

\* attachLogActions: the clear-logs button empties both arrays and then
\* reports through setStatus, which appends one launcher line.
LegacyClearLogs ==
  /\ fuel > 0
  /\ LET cleared == [legacy EXCEPT !.launcher = <<>>, !.game = <<>>]
         emptied == [legacyHist EXCEPT !.launcher = <<>>, !.game = <<>>]
     IN /\ legacy' = legacy_appendLauncherLog(cleared, <<"Logs cleared.">>)
        /\ legacyHist' = HistLauncher(emptied, <<"Logs cleared.">>)
  /\ fuel' = fuel - 1
  /\ UNCHANGED <<now, logVars, subVars, trackerVars, configVars, viewVars>>

\* ------------------------------------ LauncherProvider: progress tracker
\* a || b for an optional value
OrElse(opt, default) == IF opt = None THEN default ELSE opt[1]

Stages == {"prepare", "download"}
Details == {"", "d1", "d2"}

\* install:progress payloads; every field may be missing
ProgressPayloads ==
  [stage : {None} \cup {Some(x) : x \in Stages},
   message : {None, Some("m")},
   current : {None, Some(0), Some(1)},
   total : {None, Some(2)},
   detail : {None} \cup {Some(x) : x \in Details}]

\* the object handed to setInstallProgress
Snapshot(payload) ==
  [stage |-> OrElse(payload.stage, "install"),
   message |-> OrElse(payload.message, "Working"),
   current |-> OrElse(payload.current, 0),
   total |-> payload.total,
   detail |-> payload.detail]

\* the tracker as the handler finds it
Before(topic) ==
  [topic |-> topic, wasInstalling |-> installing, hadDetails |-> Len(installDetails),
   payload |-> None]

\* a progress listener that never clears the detail log
IsPrepareStart_Never(payload) == FALSE

\* payload.stage === "prepare" && payload.current === 0
IsPrepareStart(payload) == payload.stage = Some("prepare") /\ payload.current = Some(0)

\* listen("install:progress", ...)
OnInstallProgress ==
  /\ subscribed["install:progress"]
  /\ \E payload \in ProgressPayloads :
       LET cleared == IF IsPrepareStart(payload) THEN <<>> ELSE installDetails
           detail == payload.detail
       IN /\ installProgress' = Some(Snapshot(payload))
          /\ installing' = TRUE
          /\ IF detail # None /\ detail # Some("")
             THEN /\ fuel > 0
                  /\ fuel' = fuel - 1
                  /\ installDetails' = Bounded(Append(cleared, detail[1]), DetailLimit)
             ELSE /\ installDetails' = cleared
                  /\ UNCHANGED fuel
          /\ lastEvent' = [Before("install:progress") EXCEPT !.payload = Some(payload)]
  /\ UNCHANGED <<now, logVars, legacyVars, subVars, configVars, viewVars>>

\* a terminal handler that keeps the snapshot
TrackerIdle_SnapshotKept ==
  /\ installing' = FALSE
  /\ installDetails' = <<>>
  /\ UNCHANGED installProgress

\* a terminal handler that keeps the detail lines
TrackerIdle_DetailsKept ==
  /\ installing' = FALSE
  /\ installProgress' = None
  /\ UNCHANGED installDetails

\* setInstalling(false); setInstallProgress(null); setInstallDetails([])
TrackerIdle ==
  /\ installing' = FALSE
  /\ installProgress' = None
  /\ installDetails' = <<>>

\* refreshConfig up to its await (the backend is present: listen exists)
RefreshConfigBegin ==
  /\ loading' = TRUE
  /\ configLoads' = configLoads + 1
  /\ UNCHANGED config

\* refreshConfig() called through the launcher context
RefreshConfigCall ==
  /\ configLoads < MaxLoads
  /\ RefreshConfigBegin
  /\ UNCHANGED <<now, fuel, logVars, legacyVars, subVars, trackerVars, viewVars>>

\* listen("install:done", ...)
OnInstallDone ==
  /\ subscribed["install:done"]
  /\ fuel > 0
  /\ TrackerIdle
  /\ Emit(<< <<"Instance created.">> >>)
  /\ RefreshConfigBegin
  /\ lastEvent' = Before("install:done")
  /\ fuel' = fuel - 1
  /\ UNCHANGED <<now, legacyVars, subVars, viewVars>>

\* listen("install:error", ...): event?.payload || "Install failed."
OnInstallError ==
  /\ subscribed["install:error"]
  /\ fuel > 0
  /\ \E payload \in {None, Some("boom")} :
       Emit(<< <<OrElse(payload, "Install failed.")>> >>)
  /\ TrackerIdle
  /\ lastEvent' = Before("install:error")
  /\ fuel' = fuel - 1
  /\ UNCHANGED <<now, legacyVars, subVars, configVars, viewVars>>

\* listen("launch:started", ...)
OnLaunchStarted ==
  /\ subscribed["launch:started"]
  /\ fuel > 0
  /\ TrackerIdle
  /\ Emit(<< <<"Game launched.">> >>)
  /\ lastEvent' = Before("launch:started")
  /\ fuel' = fuel - 1
  /\ UNCHANGED <<now, legacyVars, subVars, configVars, viewVars>>

\* listen("launch:error", ...)
OnLaunchError ==
  /\ subscribed["launch:error"]
  /\ fuel > 0
  /\ TrackerIdle
  /\ Emit(<< <<"Launch failed. Check logs.">> >>)
  /\ lastEvent' = Before("launch:error")
  /\ fuel' = fuel - 1
  /\ UNCHANGED <<now, legacyVars, subVars, configVars, viewVars>>

\* --------------------------- LauncherProvider: subscription effect
\* .then((unlisten) => { unlistenX = unlisten; }) of one listen() call
ListenResolved ==
  \E t \in Topics :
    /\ ~handle[t]
    /\ handle' = [handle EXCEPT ![t] = TRUE]
    /\ subscribed' = [subscribed EXCEPT ![t] = TRUE]
    /\ UNCHANGED <<unlistenCalls, tornDown, heldAtTeardown>>
    /\ UNCHANGED <<now, fuel, logVars, legacyVars, trackerVars, configVars, viewVars>>

\* a cleanup that calls every handle variable, assigned or not
CallIfHeld_Always(t) == 1

\* unlistenX?.(): the handle is invoked if it has been assigned
CallIfHeld(t) == IF handle[t] THEN 1 ELSE 0

\* the effect's cleanup function
Teardown ==
  /\ ~tornDown
  /\ tornDown' = TRUE
  /\ heldAtTeardown' = {t \in Topics : handle[t]}
  /\ unlistenCalls' = [t \in Topics |-> unlistenCalls[t] + CallIfHeld(t)]
  /\ subscribed' = [t \in Topics |-> subscribed[t] /\ CallIfHeld(t) = 0]
  /\ UNCHANGED handle
  /\ UNCHANGED <<now, fuel, logVars, legacyVars, trackerVars, configVars, viewVars>>

\* ------------------------------------------------ OverviewTabs: state
ModrinthKinds == {"mods", "resources", "shaders", "datapacks"}
Projects == {"p1"}
\* the tabs visited (of console, mods, resources, textures, shaders,
\* datapacks, servers, worlds, settings)
Tabs == {"console", "mods"}
\* no datapack world is ever selected: useState("")
datapackWorldId == ""

\* `${kind}:${project.project_id}`
BusyKey(kind, projectId) == <<kind, projectId>>
BusyKeys == {BusyKey(k, p) : k \in ModrinthKinds, p \in Projects}

TaskIds == 1..MaxTasks
\* the filter chips offered (of Modrinth's categories and loaders)
Categories == {"magic", "tech"}
Loaders == {"fabric"}
Sides == {"client", "server"}

\* instance.loader and instance.version of the two instances
InstanceLoader == [i \in Instances |-> IF i = "a" THEN "fabric" ELSE "vanilla"]
InstanceVersion == [i \in Instances |-> IF i = "a" THEN "1.20.1" ELSE "1.21"]

\* const modrinthLoader = instance.loader === "fabric" ? ... : null
modrinthLoader(id) ==
  IF InstanceLoader[id] \in {"fabric", "forge"} THEN Some(InstanceLoader[id]) ELSE None

NoFilters ==
  [categories |-> <<>>, loaders |-> <<>>, showAllVersions |-> FALSE,
   environments |-> [client |-> FALSE, server |-> FALSE],
   openSourceOnly |-> FALSE, hideInstalled |-> FALSE]

buildDefaultFilters(kind, id) ==
  [NoFilters EXCEPT !.loaders = IF kind = "mods" /\ modrinthLoader(id) # None
                                THEN <<modrinthLoader(id)[1]>> ELSE <<>>]

toggleFilterValue(values, value) ==
  IF \E k \in 1..Len(values) : values[k] = value
  THEN SelectSeq(values, LAMBDA item : item # value)
  ELSE Append(values, value)

\* values.map((item) => `categories:${item}`)
Facet(name, values) == [k \in 1..Len(values) |-> <<name, values[k]>>]

buildModrinthFacets(kind, filters) ==
  (IF Len(filters.categories) > 0
   THEN << Facet("categories", filters.categories) >> ELSE <<>>)
  \o (IF kind = "mods" /\ Len(filters.loaders) > 0
      THEN << Facet("categories", filters.loaders) >> ELSE <<>>)
  \o (IF filters.environments.client
      THEN << << <<"client_side", "required">>, <<"client_side", "optional">> >> >>
      ELSE <<>>)
  \o (IF filters.environments.server
      THEN << << <<"server_side", "required">>, <<"server_side", "optional">> >> >>
      ELSE <<>>)
  \o (IF filters.openSourceOnly THEN << << <<"open_source", "true">> >> >> ELSE <<>>)

\* the sort orders offered (of relevance, downloads, follows, newest, updated)
Sorts == {"downloads", "relevance"}

\* instance: history, the instance viewed when the task was started (kept
\* for the tasks whose answers are written to modelled state)
FreeTask ==
  [type |-> "free", kind |-> "", projectId |-> "", pc |-> "", query |-> <<>>,
   filters |-> NoFilters, sort |-> "", instance |-> ""]
FreeSlots == {t \in TaskIds : tasks[t].type = "free"}
NextSlot == CHOOSE t \in FreeSlots : \A u \in FreeSlots : t <= u

DefaultModrinthState(kind, id) ==
  [query |-> <<>>, results |-> <<>>, loading |-> FALSE, error |-> None,
   sort |-> "downloads", filters |-> buildDefaultFilters(kind, id)]

\* no request: the arguments of search_modrinth_projects, all empty
NoRequest ==
  [query |-> <<>>, gameVersion |-> "", limit |-> 0, sort |-> "", extraFacets |-> <<>>]

\* search history of a kind: no search issued since the reset
NoSearch == [st |-> "none", answer |-> <<>>, slot |-> 0, last |-> "", request |-> NoRequest]

NoTimers == [i \in Instances |-> [live |-> 0, stale |-> 0]]

\* launch:ended listeners by the instanceId of their closure: cur is the
\* listener of the effect that is in force (its listen() call pending, or
\* resolved and the handle held), orphan one whose effect was cleaned up
\* while its listen() call was pending (still pending, or registered)
NoListeners == [i \in Instances |-> [cur |-> "none", orphan |-> "none"]]

\* the view of instance "a" on the given tab, nothing in flight
InitView(tab) ==
  /\ instanceId = "a"
  /\ activeTab = tab
  /\ modrinthDialogKind = ""
  /\ modrinthBusy = [k \in BusyKeys |-> ""]
  /\ busyOwner = [k \in BusyKeys |-> 0]
  /\ lastEnd = "none"
  /\ modrinthState = [k \in ModrinthKinds |-> DefaultModrinthState(k, "a")]
  /\ searchLog = [k \in ModrinthKinds |-> NoSearch]
  /\ tasks = [t \in TaskIds |-> FreeTask]
  /\ isRunning = FALSE
  /\ memoryUsage = None
  /\ memoryHistory = <<>>
  /\ timers = IF tab = "console" THEN [NoTimers EXCEPT !["a"].live = 1] ELSE NoTimers
  /\ polls = NoTimers
  /\ lastPoll = "none"
  /\ endedSubs = [NoListeners EXCEPT !["a"].cur = "held"]


\* a reset effect that leaves the search state of the kinds alone
ResetEffect_SearchKept(id) ==
  /\ isRunning' = FALSE
  /\ memoryUsage' = None
  /\ memoryHistory' = <<>>
  /\ modrinthDialogKind' = ""
  /\ modrinthBusy' = [k \in BusyKeys |-> ""]
  /\ busyOwner' = [k \in BusyKeys |-> 0]
  /\ UNCHANGED <<lastEnd, modrinthState, searchLog>>

\* useEffect(..., [instance, defaults]): runs whenever the instance prop or
\* the configuration defaults are a new object
ResetEffect(id) ==
  /\ isRunning' = FALSE
  /\ memoryUsage' = None
  /\ memoryHistory' = <<>>
  /\ modrinthDialogKind' = ""
  /\ modrinthBusy' = [k \in BusyKeys |-> ""]
  /\ busyOwner' = [k \in BusyKeys |-> 0]
  /\ UNCHANGED lastEnd
  /\ modrinthState' = [k \in ModrinthKinds |-> DefaultModrinthState(k, id)]
  /\ searchLog' = [k \in ModrinthKinds |-> NoSearch]

\* ------------------------------------- OverviewTabs: telemetry poll effect
\* a cleanup that leaves the interval running
ClearInterval_Forgotten(T) ==
  [i \in Instances |-> [live |-> 0, stale |-> T[i].stale + T[i].live]]

\* window.clearInterval(interval) in the effect's cleanup
ClearInterval(T) == [i \in Instances |-> [live |-> 0, stale |-> T[i].stale]]

\* active = false in the effect's cleanup: the calls in flight become stale
Deactivate(P) == [i \in Instances |-> [live |-> 0, stale |-> P[i].stale + P[i].live]]

\* cleanup of the effect that ran for (activeTab, instanceId), then the
\* effect for (tab, id)
TelemetryEffect(tab, id) ==
  LET cleanedT == IF activeTab = "console" THEN ClearInterval(timers) ELSE timers
      cleanedP == IF activeTab = "console" THEN Deactivate(polls) ELSE polls
  IN /\ timers' = IF tab = "console"
                  THEN [cleanedT EXCEPT ![id].live = @ + 1] ELSE cleanedT
     /\ polls' = cleanedP

\* a timer or call is live while the effect that made it has active = true
PollKinds == {"live", "stale"}
InFlight == polls["a"].live + polls["a"].stale + polls["b"].live + polls["b"].stale

\* the interval callback up to its await
IntervalTick ==
  /\ InFlight < MaxPolls
  /\ \E i \in Instances, k \in PollKinds :
       /\ timers[i][k] > 0
       /\ polls' = [polls EXCEPT ![i][k] = @ + 1]
  /\ UNCHANGED <<isRunning, memoryUsage, memoryHistory, timers, lastPoll, endedSubs>>
  /\ UNCHANGED <<now, fuel, logVars, legacyVars, subVars, trackerVars, configVars,
                 instanceId, activeTab, busyVars, searchVars>>

\* get_instance_metrics outcomes: a reading, a response without one, rejection
Readings == {0, 512}
MetricsOutcomes == {"reading", "null", "failed"}

\* a callback that takes every response for a reading
HasReading_AnyResponse(outcome) == outcome # "failed"

\* metrics && typeof metrics.rss_mb === "number"
HasReading(outcome) == outcome = "reading"

\* a callback that never looks at its active flag
Discarded_Never(k) == FALSE

\* if (!active) return;
Discarded(k) == k = "stale"

\* the interval callback after its await
MetricsSettled ==
  /\ \E i \in Instances, k \in PollKinds, outcome \in MetricsOutcomes, rss \in Readings :
       /\ polls[i][k] > 0
       /\ polls' = [polls EXCEPT ![i][k] = @ - 1]
       /\ IF Discarded(k)
          THEN /\ lastPoll' = "discarded"
               /\ UNCHANGED <<isRunning, memoryUsage, memoryHistory, fuel>>
          ELSE /\ lastPoll' = outcome
               /\ IF HasReading(outcome)
                  THEN /\ fuel > 0
                       /\ fuel' = fuel - 1
                       /\ memoryUsage' = Some(rss)
                       /\ isRunning' = TRUE
                       /\ memoryHistory' =
                            Bounded(Append(memoryHistory, rss), HistoryLimit)
                  ELSE IF outcome = "null"
                  THEN /\ memoryUsage' = None
                       /\ isRunning' = FALSE
                       /\ UNCHANGED <<memoryHistory, fuel>>
                  ELSE /\ memoryUsage' = None
                       /\ UNCHANGED <<isRunning, memoryHistory, fuel>>
  /\ UNCHANGED <<timers, endedSubs>>
  /\ UNCHANGED <<now, logVars, legacyVars, subVars, trackerVars, configVars,
                 instanceId, activeTab, busyVars, searchVars>>

\* --------------------------- OverviewTabs: launch:ended listener effect
\* unlisten?.() in the cleanup: a handle that is held is called; a listen()
\* call that is still pending leaves its listener behind
Orphaned(sub) == IF sub.cur = "pending" /\ sub.orphan # "live" THEN "pending" ELSE sub.orphan

\* cleanup of the effect that ran for instanceId, then the effect for id
EndedEffect(id) ==
  endedSubs' = [i \in Instances |->
                  IF i = id
                  THEN [cur |-> "pending", orphan |-> endedSubs[i].orphan]
                  ELSE IF i = instanceId
                  THEN [cur |-> "none", orphan |-> Orphaned(endedSubs[i])]
                  ELSE endedSubs[i]]

\* .then((stop) => { unlisten = stop; }) of one listen("launch:ended") call
EndedListenResolved ==
  /\ \E i \in Instances :
       \/ /\ endedSubs[i].cur = "pending"
          /\ endedSubs' = [endedSubs EXCEPT ![i].cur = "held"]
       \/ /\ endedSubs[i].orphan = "pending"
          /\ endedSubs' = [endedSubs EXCEPT ![i].orphan = "live"]
  /\ UNCHANGED <<isRunning, memoryUsage, memoryHistory, timers, polls, lastPoll>>
  /\ UNCHANGED <<now, fuel, logVars, legacyVars, subVars, trackerVars, configVars,
                 instanceId, activeTab, busyVars, searchVars>>

\* the registered listeners whose closure holds the instance id
EndedListeners(id) ==
  IF id \notin Instances THEN 0
  ELSE (IF endedSubs[id].cur = "held" THEN 1 ELSE 0)
       + (IF endedSubs[id].orphan = "live" THEN 1 ELSE 0)

\* one run of the listener body: appendInstanceLog(instanceId, "Instance
\* closed."); setStatus("Instance closed.")
RECURSIVE Closed(_, _, _)
Closed(S, id, n) ==
  IF n = 0 THEN S
  ELSE LET T == setStatus(S, <<"Instance closed.">>)
       IN Closed([status |-> T.status,
                  logs |-> appendInstanceLog(T.logs, id, <<"Instance closed.">>),
                  hist |-> HistInstance(T.hist, id, <<"Instance closed.">>)],
                 id, n - 1)

\* a launch:ended event, delivered to every registered listener; each one
\* compares the id of the event with the instanceId of its closure
OnLaunchEnded ==
  /\ \E endedId \in Instances \cup {""} :
       LET n == EndedListeners(endedId)
           S == Closed([status |-> status, logs |-> logs, hist |-> logHist], endedId, n)
       IN /\ fuel >= n
          /\ fuel' = fuel - n
          /\ status' = S.status
          /\ logs' = S.logs
          /\ logHist' = S.hist
          /\ IF n > 0
             THEN /\ isRunning' = FALSE
                  /\ memoryUsage' = None
                  /\ memoryHistory' = <<>>
             ELSE UNCHANGED <<isRunning, memoryUsage, memoryHistory>>
          /\ lastEvent' = [topic |-> "launch:ended", wasInstalling |-> installing,
                           hadDetails |-> Len(installDetails),
                           payload |-> Some([instance_id |-> endedId])]
  /\ UNCHANGED <<installProgress, installing, installDetails>>
  /\ UNCHANGED <<timers, polls, lastPoll, endedSubs>>
  /\ UNCHANGED <<now, legacyVars, subVars, configVars, instanceId, activeTab, busyVars,
                 searchVars>>

\* ----------------------------------------- OverviewTabs: async handlers
providerVars == <<now, legacyVars, subVars, trackerVars>>

NewTask(type, kind, projectId, pc, query) ==
  [type |-> type, kind |-> kind, projectId |-> projectId, pc |-> pc, query |-> query,
   filters |-> NoFilters, sort |-> "",
   instance |-> IF type \in {"loadTab", "login"} THEN "" ELSE instanceId]

\* tabs whose content the loadTab effect fetches
LoadingTabs == {"mods", "resources", "textures", "shaders", "servers", "worlds", "datapacks"}
\* the tabs that render a "Browse Modrinth" launcher, by their own kind
LauncherTabs == {"mods", "resources", "shaders", "datapacks"}

\* err?.toString?.() of a rejected command-channel call
Rejection == "Error: rejected"

\* a rejection is reported through setStatus, which takes one unit of fuel
Report(ok) ==
  IF ok THEN UNCHANGED <<logVars, fuel>>
  ELSE /\ fuel > 0
       /\ fuel' = fuel - 1
       /\ Emit(<< <<Rejection>> >>)

\* String.prototype.trim over a sequence of tokens, " " being white space
RECURSIVE Trim(_)
Trim(q) ==
  IF q = <<>> THEN q
  ELSE IF Head(q) = " " THEN Trim(Tail(q))
  ELSE IF q[Len(q)] = " " THEN Trim(SubSeq(q, 1, Len(q) - 1))
  ELSE q

Queries == {<<>>, <<" ", "q1">>}

\* search_modrinth_projects responses: null or a hit list
Responses == {None, Some(<<"h1">>)}

\* the loadTab effect for (tab, instance): its request, if the tab has one
LoadTabEffect(tab) ==
  IF tab \in LoadingTabs
  THEN /\ FreeSlots # {}
       /\ tasks' = [tasks EXCEPT ![NextSlot] = NewTask("loadTab", "", "", "list", <<>>)]
  ELSE UNCHANGED tasks

\* a tab button: setActiveTab(tab.id), then the effects that depend on it
SelectTab ==
  /\ \E tab \in Tabs \ {activeTab} :
       /\ activeTab' = tab
       /\ TelemetryEffect(tab, instanceId)
       /\ LoadTabEffect(tab)
  /\ UNCHANGED <<instanceId, modrinthDialogKind, modrinthBusy, busyOwner, lastEnd, searchVars,
                 isRunning, memoryUsage, memoryHistory, lastPoll, endedSubs>>
  /\ UNCHANGED <<providerVars, logVars, configVars, fuel>>

\* the instance prop gets another id: reset effect, setActiveTab("console"),
\* telemetry effect, and the loadTab effect of the render that still has
\* the old tab
SelectInstance ==
  /\ \E id \in Instances \ {instanceId} :
       /\ instanceId' = id
       /\ TelemetryEffect("console", id)
       /\ EndedEffect(id)
       /\ ResetEffect(id)
  /\ activeTab' = "console"
  /\ LoadTabEffect(activeTab)
  /\ UNCHANGED lastPoll
  /\ UNCHANGED <<providerVars, logVars, configVars, fuel>>

\* refreshConfig after its await: setConfig(nextConfig) gives OverviewTabs a
\* new instance object of the same id, which runs the reset effect
LoadConfigSettled ==
  /\ configLoads > 0
  /\ configLoads' = configLoads - 1
  /\ loading' = FALSE
  /\ \E ok \in BOOLEAN :
       /\ Report(ok)
       /\ IF ok
          THEN /\ config' = Some("cfg")
               /\ ResetEffect(instanceId)
          ELSE UNCHANGED <<config, modrinthDialogKind, modrinthBusy, busyOwner, lastEnd,
                           searchVars, isRunning, memoryUsage, memoryHistory>>
  /\ UNCHANGED <<instanceId, activeTab, tasks, timers, polls, lastPoll, endedSubs>>
  /\ UNCHANGED providerVars

\* the loadTab effect after its await (the listings are presentation)
LoadTabSettled ==
  /\ \E t \in TaskIds, ok \in BOOLEAN :
       /\ tasks[t].type = "loadTab"
       /\ tasks' = [tasks EXCEPT ![t] = FreeTask]
       /\ Report(ok)
  /\ UNCHANGED <<instanceId, activeTab, modrinthDialogKind, modrinthBusy, busyOwner, lastEnd,
                 searchVars, telemetryVars>>
  /\ UNCHANGED <<providerVars, configVars>>

\* --------------------------------------------- OverviewTabs: search
\* updateModrinthState(kind, { loading: true, error: null, query })
SearchBegin(M, kind, query) ==
  [M EXCEPT ![kind] = [@ EXCEPT !.loading = TRUE, !.error = None, !.query = Trim(query)]]

\* the arguments of invoke("search_modrinth_projects", ...) that depend on
\* the query, the sort order and the filters (projectType and loader are
\* fixed)
SearchRequest(kind, query, sort, filters) ==
  [query |-> Trim(query),
   sort |-> sort,
   gameVersion |-> IF filters.showAllVersions THEN "" ELSE InstanceVersion[instanceId],
   limit |-> IF Len(Trim(query)) = 0 THEN 10 ELSE 16,
   extraFacets |-> buildModrinthFacets(kind, filters)]

\* the search history of a kind when task t issues a search
Issued(H, kind, t, request) ==
  [H EXCEPT ![kind] = [st |-> "pending", answer |-> <<>>, slot |-> t, last |-> "",
                       request |-> request]]

\* the search history of a kind when the search of task t is answered
Answered(H, kind, t, st, answer) ==
  IF H[kind].st = "pending" /\ H[kind].slot = t
  THEN [H EXCEPT ![kind] = [@ EXCEPT !.st = st, !.answer = answer, !.slot = 0,
                                     !.last = st]]
  ELSE [H EXCEPT ![kind].last = st]

\* onQueryChange
QueryChange ==
  /\ modrinthDialogKind # ""
  /\ \E value \in Queries :
       /\ value # modrinthState[modrinthDialogKind].query
       /\ modrinthState' = [modrinthState EXCEPT ![modrinthDialogKind].query = value]
  /\ UNCHANGED <<instanceId, activeTab, busyVars, searchLog, telemetryVars, fuel>>
  /\ UNCHANGED <<providerVars, logVars, configVars>>

\* onSearch: handleModrinthSearch(modrinthDialogKind) up to its await
HandleModrinthSearch ==
  /\ modrinthDialogKind # ""
  /\ FreeSlots # {}
  /\ LET kind == modrinthDialogKind
     IN /\ modrinthState' = SearchBegin(modrinthState, kind, modrinthState[kind].query)
        /\ searchLog' = Issued(searchLog, kind, NextSlot,
                               SearchRequest(kind, modrinthState[kind].query,
                                             modrinthState[kind].sort,
                                             modrinthState[kind].filters))
        /\ tasks' = [tasks EXCEPT ![NextSlot] = NewTask("search", kind, "", "search", <<>>)]
  /\ UNCHANGED <<instanceId, activeTab, modrinthDialogKind, modrinthBusy, busyOwner, lastEnd,
                 telemetryVars, fuel>>
  /\ UNCHANGED <<providerVars, logVars, configVars>>

\* a filter handler that searches without handing over the new filters
FilterToggle_StaleFilters(kind, nextFilters) ==
  /\ FreeSlots # {}
  /\ modrinthState' =
       SearchBegin([modrinthState EXCEPT ![kind].filters = nextFilters], kind,
                   modrinthState[kind].query)
  /\ searchLog' = Issued(searchLog, kind, NextSlot,
                         SearchRequest(kind, modrinthState[kind].query,
                                       modrinthState[kind].sort,
                                       modrinthState[kind].filters))
  /\ tasks' = [tasks EXCEPT ![NextSlot] = NewTask("search", kind, "", "search", <<>>)]
  /\ UNCHANGED <<instanceId, activeTab, modrinthDialogKind, modrinthBusy, busyOwner, lastEnd,
                 telemetryVars, fuel>>
  /\ UNCHANGED <<providerVars, logVars, configVars>>

\* a filter handler: updateModrinthState(kind, { filters: nextFilters });
\* handleModrinthSearch(kind, { filters: nextFilters }) up to its await
FilterToggle(kind, nextFilters) ==
  /\ FreeSlots # {}
  /\ modrinthState' =
       SearchBegin([modrinthState EXCEPT ![kind].filters = nextFilters], kind,
                   modrinthState[kind].query)
  /\ searchLog' = Issued(searchLog, kind, NextSlot,
                         SearchRequest(kind, modrinthState[kind].query,
                                       modrinthState[kind].sort, nextFilters))
  /\ tasks' = [tasks EXCEPT ![NextSlot] = NewTask("search", kind, "", "search", <<>>)]
  /\ UNCHANGED <<instanceId, activeTab, modrinthDialogKind, modrinthBusy, busyOwner, lastEnd,
                 telemetryVars, fuel>>
  /\ UNCHANGED <<providerVars, logVars, configVars>>

\* onSortChange: updateModrinthState(kind, { sort: value });
\* handleModrinthSearch(kind, { sort: value }) up to its await
HandleModrinthSortChange ==
  /\ modrinthDialogKind # ""
  /\ FreeSlots # {}
  /\ LET kind == modrinthDialogKind
     IN \E value \in Sorts \ {modrinthState[kind].sort} :
          /\ modrinthState' =
               SearchBegin([modrinthState EXCEPT ![kind].sort = value], kind,
                           modrinthState[kind].query)
          /\ searchLog' = Issued(searchLog, kind, NextSlot,
                                 SearchRequest(kind, modrinthState[kind].query, value,
                                               modrinthState[kind].filters))
          /\ tasks' = [tasks EXCEPT ![NextSlot] =
                         NewTask("search", kind, "", "search", <<>>)]
  /\ UNCHANGED <<instanceId, activeTab, modrinthDialogKind, modrinthBusy, busyOwner, lastEnd,
                 telemetryVars, fuel>>
  /\ UNCHANGED <<providerVars, logVars, configVars>>

\* the filters of the kind as the handlers read them
FiltersOf(kind) == modrinthState[kind].filters

\* onToggleCategory
HandleModrinthCategoryToggle ==
  /\ modrinthDialogKind # ""
  /\ \E value \in Categories :
       FilterToggle(modrinthDialogKind,
                    [FiltersOf(modrinthDialogKind) EXCEPT
                       !.categories = toggleFilterValue(@, value)])

\* onToggleLoader
HandleModrinthLoaderToggle ==
  /\ modrinthDialogKind # ""
  /\ \E value \in Loaders :
       FilterToggle(modrinthDialogKind,
                    [FiltersOf(modrinthDialogKind) EXCEPT
                       !.loaders = toggleFilterValue(@, value)])

\* onToggleEnvironment
HandleModrinthEnvironmentToggle ==
  /\ modrinthDialogKind # ""
  /\ \E side \in Sides :
       FilterToggle(modrinthDialogKind,
                    [FiltersOf(modrinthDialogKind) EXCEPT !.environments[side] = ~@])

\* onToggleOpenSource
HandleModrinthOpenSourceToggle ==
  /\ modrinthDialogKind # ""
  /\ FilterToggle(modrinthDialogKind,
                  [FiltersOf(modrinthDialogKind) EXCEPT !.openSourceOnly = ~@])

\* onToggleShowAllVersions
HandleModrinthShowAllVersionsToggle ==
  /\ modrinthDialogKind # ""
  /\ FilterToggle(modrinthDialogKind,
                  [FiltersOf(modrinthDialogKind) EXCEPT !.showAllVersions = ~@])

\* onToggleHideInstalled
HandleModrinthHideInstalledToggle ==
  /\ modrinthDialogKind # ""
  /\ FilterToggle(modrinthDialogKind,
                  [FiltersOf(modrinthDialogKind) EXCEPT !.hideInstalled = ~@])

\* the "Browse Modrinth" button of the active tab (the page under an open
\* dialog is not clickable): openModrinthDialog(kind) up to its first await
OpenModrinthDialog ==
  /\ activeTab \in LauncherTabs
  /\ modrinthDialogKind = ""
  /\ LET kind == activeTab
     IN IF kind = "datapacks" /\ datapackWorldId = ""
        THEN /\ fuel > 0
             /\ fuel' = fuel - 1
             /\ Emit(<< <<"Select a world before browsing datapacks.">> >>)
             /\ UNCHANGED <<modrinthDialogKind, tasks>>
        ELSE /\ FreeSlots # {}
             /\ modrinthDialogKind' = kind
             /\ tasks' = [tasks EXCEPT ![NextSlot] =
                            [NewTask("open", kind, "", "installs",
                                     modrinthState[kind].query)
                               EXCEPT !.filters = modrinthState[kind].filters,
                                      !.sort = modrinthState[kind].sort]]
             /\ UNCHANGED <<logVars, fuel>>
  /\ UNCHANGED <<instanceId, activeTab, modrinthBusy, busyOwner, lastEnd, searchVars, telemetryVars>>
  /\ UNCHANGED <<providerVars, configVars>>

\* onClose
CloseDialog ==
  /\ modrinthDialogKind # ""
  /\ modrinthDialogKind' = ""
  /\ UNCHANGED <<instanceId, activeTab, modrinthBusy, busyOwner, lastEnd, tasks, searchVars,
                 telemetryVars, fuel>>
  /\ UNCHANGED <<providerVars, logVars, configVars>>

\* openModrinthDialog after loadModrinthInstalls (which reports its own
\* failure): handleModrinthSearch with the query captured at the click
OpenInstallsSettled ==
  /\ \E t \in TaskIds, ok \in BOOLEAN :
       /\ tasks[t].type = "open"
       /\ tasks[t].pc = "installs"
       /\ LET kind == tasks[t].kind
          IN /\ modrinthState' = SearchBegin(modrinthState, kind, tasks[t].query)
             /\ searchLog' = Issued(searchLog, kind, t,
                                    SearchRequest(kind, tasks[t].query, tasks[t].sort,
                                                  tasks[t].filters))
             /\ tasks' = [tasks EXCEPT ![t] = NewTask("search", kind, "", "search", <<>>)]
       /\ Report(ok)
  /\ UNCHANGED <<instanceId, activeTab, modrinthDialogKind, modrinthBusy, busyOwner, lastEnd,
                 telemetryVars>>
  /\ UNCHANGED <<providerVars, configVars>>

\* updateModrinthState(kind, { results: results || [], loading: false })
SearchSucceeded(M, kind, response) ==
  [M EXCEPT ![kind] = [@ EXCEPT !.results = OrElse(response, <<>>), !.loading = FALSE]]

\* a catch branch that also drops the results shown
SearchFailed_Cleared(M, kind, message) ==
  [M EXCEPT ![kind] = [@ EXCEPT !.error = Some(message), !.loading = FALSE,
                                !.results = <<>>]]

\* updateModrinthState(kind, { error: message, loading: false })
SearchFailed(M, kind, message) ==
  [M EXCEPT ![kind] = [@ EXCEPT !.error = Some(message), !.loading = FALSE]]

\* handleModrinthSearch after its await
SearchSettled ==
  /\ \E t \in TaskIds, ok \in BOOLEAN, response \in Responses :
       /\ tasks[t].type = "search"
       /\ LET kind == tasks[t].kind
          IN IF ok
             THEN /\ modrinthState' = SearchSucceeded(modrinthState, kind, response)
                  /\ searchLog' = Answered(searchLog, kind, t, "ok", OrElse(response, <<>>))
             ELSE /\ modrinthState' = SearchFailed(modrinthState, kind, Rejection)
                  /\ searchLog' = Answered(searchLog, kind, t, "failed", <<>>)
       /\ tasks' = [tasks EXCEPT ![t] = FreeTask]
  /\ UNCHANGED <<instanceId, activeTab, modrinthDialogKind, modrinthBusy, busyOwner, lastEnd,
                 telemetryVars, fuel>>
  /\ UNCHANGED <<providerVars, logVars, configVars>>

\* ------------------------------- OverviewTabs: install and uninstall
\* if (modrinthBusy[key]) return;
IsBusy(B, key) == B[key] # ""

\* setModrinthBusy((prev) => ({ ...prev, [key]: tag }))
MarkBusy(B, key, tag) == [B EXCEPT ![key] = tag]

\* a finally block that leaves the entry in place
EndBusy_Kept(B, key) == B

\* setModrinthBusy((prev) => { const next = { ...prev }; delete next[key]; ... })
EndBusy(B, key) == [B EXCEPT ![key] = ""]

\* handleModrinthInstall / handleModrinthUninstall up to the first await
\* (type is "install" or "uninstall"); the unit of fuel pays for the status
\* line every completion reports
BeginOperation(type) ==
  /\ modrinthDialogKind # ""
  /\ \E projectId \in Projects :
       LET kind == modrinthDialogKind
           key == BusyKey(kind, projectId)
       IN IF IsBusy(modrinthBusy, key)
          THEN UNCHANGED <<modrinthBusy, busyOwner, lastEnd, tasks, fuel>>
          ELSE /\ fuel > 0
               /\ FreeSlots # {}
               /\ modrinthBusy' = MarkBusy(modrinthBusy, key, type)
               /\ busyOwner' = [busyOwner EXCEPT ![key] = NextSlot]
               /\ UNCHANGED lastEnd
               /\ tasks' = [tasks EXCEPT ![NextSlot] =
                              NewTask(type, kind, projectId, "cmd", <<>>)]
               /\ fuel' = fuel - 1
  /\ UNCHANGED <<instanceId, activeTab, modrinthDialogKind, searchVars, telemetryVars>>
  /\ UNCHANGED <<providerVars, logVars, configVars>>

HandleModrinthInstall == BeginOperation("install")

HandleModrinthUninstall == BeginOperation("uninstall")

\* `${project.title} installed.` / `${project.title} removed.`
DoneMessage(task) ==
  <<task.projectId, IF task.type = "install" THEN " installed." ELSE " removed.">>

\* the busy key an install or uninstall works under
KeyOf(task) == BusyKey(task.kind, task.projectId)

\* the finally block; outcome records which block ran before it
Finally(t, outcome) ==
  /\ modrinthBusy' = EndBusy(modrinthBusy, KeyOf(tasks[t]))
  /\ busyOwner' = [busyOwner EXCEPT ![KeyOf(tasks[t])] = 0]
  /\ tasks' = [tasks EXCEPT ![t] = FreeTask]
  /\ lastEnd' = outcome

\* the catch block, then the finally block
CatchThenFinally(t) ==
  /\ Emit(<< <<Rejection>> >>)
  /\ UNCHANGED fuel
  /\ Finally(t, "failed")

Advance(t, pc) ==
  /\ tasks' = [tasks EXCEPT ![t].pc = pc]
  /\ UNCHANGED <<modrinthBusy, busyOwner, lastEnd>>

Operations == {"install", "uninstall"}

\* one awaited command-channel call of the install or uninstall t settles:
\*   cmd       install_modrinth_project / uninstall_modrinth_project
\*   list      list_instance_mods, list_instance_packs, or loadDatapacks
\*             (which reports its own failure)
\*   installs  loadModrinthInstalls (which reports its own failure)
OperationSettledOf(t) ==
  /\ tasks[t].type \in Operations
  /\ \E ok \in BOOLEAN :
       LET task == tasks[t]
       IN CASE task.pc = "cmd" ->
                 IF ~ok THEN CatchThenFinally(t)
                 ELSE /\ UNCHANGED <<logVars, fuel>>
                      /\ IF task.kind = "datapacks" /\ datapackWorldId = ""
                         THEN Advance(t, "installs")
                         ELSE Advance(t, "list")
            [] task.pc = "list" ->
                 IF ok THEN UNCHANGED <<logVars, fuel>> /\ Advance(t, "installs")
                 ELSE IF task.kind = "datapacks"
                 THEN Report(FALSE) /\ Advance(t, "installs")
                 ELSE CatchThenFinally(t)
            [] task.pc = "installs" ->
                 /\ IF ok THEN Emit(<<DoneMessage(task)>>) /\ UNCHANGED fuel
                    ELSE /\ fuel > 0
                         /\ fuel' = fuel - 1
                         /\ Emit(<< <<Rejection>>, DoneMessage(task) >>)
                 /\ Finally(t, "done")
  /\ UNCHANGED <<instanceId, activeTab, modrinthDialogKind, searchVars, telemetryVars>>
  /\ UNCHANGED <<providerVars, configVars>>

OperationSettled == \E t \in TaskIds : OperationSettledOf(t)

\* ------------------------------- LauncherProvider: Microsoft sign-in
\* listen("microsoft:code", ...) up to its first await: an event without a
\* code is dropped, any other starts complete_microsoft_login
OnMicrosoftCode ==
  /\ subscribed["microsoft:code"]
  /\ \E code \in {None, Some("c1")} :
       IF code = None
       THEN UNCHANGED <<logVars, fuel, tasks>>
       ELSE /\ fuel > 0
            /\ FreeSlots # {}
            /\ Emit(<< <<"Completing Microsoft sign-in...">> >>)
            /\ fuel' = fuel - 1
            /\ tasks' = [tasks EXCEPT ![NextSlot] =
                           NewTask("login", "", "", "exchange", <<>>)]
  /\ UNCHANGED <<instanceId, activeTab, modrinthDialogKind, modrinthBusy, busyOwner, lastEnd,
                 searchVars, telemetryVars>>
  /\ UNCHANGED <<providerVars, configVars>>

\* the listener after complete_microsoft_login: refreshConfig() up to its
\* await, or the catch branch
LoginExchanged ==
  /\ \E t \in TaskIds, ok \in BOOLEAN :
       /\ tasks[t].type = "login"
       /\ tasks[t].pc = "exchange"
       /\ IF ok
          THEN /\ configLoads < MaxLoads
               /\ RefreshConfigBegin
               /\ tasks' = [tasks EXCEPT ![t].pc = "refresh"]
               /\ UNCHANGED <<logVars, fuel>>
          ELSE /\ Report(FALSE)
               /\ tasks' = [tasks EXCEPT ![t] = FreeTask]
               /\ UNCHANGED configVars
  /\ UNCHANGED <<instanceId, activeTab, modrinthDialogKind, modrinthBusy, busyOwner, lastEnd,
                 searchVars, telemetryVars>>
  /\ UNCHANGED providerVars

\* the listener after its refreshConfig() has returned: load_config has
\* settled (a rejection is reported by refreshConfig itself), then
\* setStatus("Microsoft account connected.")
LoginRefreshed ==
  /\ \E t \in TaskIds, ok \in BOOLEAN :
       /\ tasks[t].type = "login"
       /\ tasks[t].pc = "refresh"
       /\ configLoads > 0
       /\ configLoads' = configLoads - 1
       /\ loading' = FALSE
       /\ tasks' = [tasks EXCEPT ![t] = FreeTask]
       /\ LET lines == (IF ok THEN <<>> ELSE << <<Rejection>> >>)
                         \o << <<"Microsoft account connected.">> >>
          IN /\ fuel >= Len(lines)
             /\ fuel' = fuel - Len(lines)
             /\ Emit(lines)
       /\ IF ok
          THEN /\ config' = Some("cfg")
               /\ ResetEffect(instanceId)
          ELSE UNCHANGED <<config, modrinthDialogKind, modrinthBusy, busyOwner, lastEnd,
                           searchVars, isRunning, memoryUsage, memoryHistory>>
  /\ UNCHANGED <<instanceId, activeTab, timers, polls, lastPoll, endedSubs>>
  /\ UNCHANGED providerVars

\* listen("microsoft:error", ...): event?.payload || "Microsoft sign-in failed."
OnMicrosoftError ==
  /\ subscribed["microsoft:error"]
  /\ fuel > 0
  /\ \E payload \in {None, Some("denied")} :
       Emit(<< <<OrElse(payload, "Microsoft sign-in failed.")>> >>)
  /\ fuel' = fuel - 1
  /\ UNCHANGED <<now, legacyVars, subVars, trackerVars, configVars, viewVars>>

\* -------------------------------------------------------- specifications
InitProvider ==
  /\ now = 0
  /\ InitLogsEmpty
  /\ InitTracker
  /\ InitConfig

\* progress tracker: the provider with every subscription resolved
InitProgress ==
  /\ InitProvider
  /\ InitView("console")
  /\ InitSubsResolved
  /\ fuel = MaxEvents

NextProgress ==
  \/ OnInstallProgress
  \/ OnInstallDone
  \/ OnInstallError
  \/ OnLaunchStarted
  \/ OnLaunchError
  \/ LoadConfigSettled

SpecProgress == InitProgress /\ [][NextProgress]_vars

\* ------------------------------------------- specification: detail log
\* The tracker in the middle of an installation: the detail log is one line
\* short of its limit (after 79 install:progress events that each carried a
\* detail line), so that a few more events cross the limit.
FillDetails(n) == [k \in 1..n |-> ToString(k)]

LongInstallPayload(n) ==
  [stage |-> Some("download"), message |-> Some("m"), current |-> Some(1),
   total |-> Some(2), detail |-> Some(ToString(n))]

InitDetails ==
  /\ now = 0
  /\ InitLogsEmpty
  /\ InitConfig
  /\ InitView("console")
  /\ InitSubsResolved
  /\ fuel = MaxEvents
  /\ installDetails = FillDetails(DetailLimit - 1)
  /\ installing = TRUE
  /\ installProgress = Some(Snapshot(LongInstallPayload(DetailLimit - 1)))
  /\ lastEvent = [topic |-> "install:progress", wasInstalling |-> TRUE,
                  hadDetails |-> DetailLimit - 2,
                  payload |-> Some(LongInstallPayload(DetailLimit - 1))]

SpecDetails == InitDetails /\ [][NextProgress]_vars

\* Microsoft sign-in, next to other listeners of the provider
InitLogin ==
  /\ InitProvider
  /\ InitView("console")
  /\ InitSubsResolved
  /\ fuel = MaxStatus

NextLogin ==
  \/ OnMicrosoftCode
  \/ LoginExchanged
  \/ LoginRefreshed
  \/ OnMicrosoftError
  \/ OnInstanceLog
  \/ OnLaunchError
  \/ ClearLauncherLogsCall
  \/ Tick

SpecLogin == InitLogin /\ [][NextLogin]_vars

\* launch:ended: the console tab with its poll, instance changes, events
NextEnded ==
  \/ SelectInstance
  \/ EndedListenResolved
  \/ OnLaunchEnded
  \/ IntervalTick
  \/ MetricsSettled

SpecEnded == InitLogin /\ [][NextEnded]_vars

\* subscription effect: mounted, every listen() call still pending
InitSubs ==
  /\ InitProvider
  /\ InitView("console")
  /\ InitSubsPending
  /\ fuel = 0

NextSubs ==
  \/ ListenResolved
  \/ Teardown

SpecSubs == InitSubs /\ [][NextSubs]_vars

\* instance view, on the console tab
InitTelemetry ==
  /\ InitProvider
  /\ InitView("console")
  /\ InitSubsResolved
  /\ fuel = MaxStatus

NextTelemetry ==
  \/ SelectTab
  \/ SelectInstance
  \/ LoadTabSettled
  \/ IntervalTick
  \/ MetricsSettled

SpecTelemetry == InitTelemetry /\ [][NextTelemetry]_vars

\* instance view, on the mods tab with its listing loaded
InitMods ==
  /\ InitProvider
  /\ InitView("mods")
  /\ InitSubsResolved
  /\ fuel = MaxStatus

NextSearch ==
  \/ OpenModrinthDialog
  \/ CloseDialog
  \/ QueryChange
  \/ HandleModrinthSearch
  \/ OpenInstallsSettled
  \/ SearchSettled
  \/ RefreshConfigCall
  \/ LoadConfigSettled

SpecSearch == InitMods /\ [][NextSearch]_vars

\* filter chips: the mods tab, the dialog opened from it and its searches
NextFilters ==
  \/ OpenModrinthDialog
  \/ HandleModrinthCategoryToggle
  \/ HandleModrinthLoaderToggle
  \/ HandleModrinthEnvironmentToggle
  \/ HandleModrinthOpenSourceToggle
  \/ HandleModrinthShowAllVersionsToggle
  \/ HandleModrinthHideInstalledToggle
  \/ OpenInstallsSettled
  \/ SearchSettled

SpecFilters == InitMods /\ [][NextFilters]_vars

\* switching: the dialog and its searches, then another instance
NextSwitch ==
  \/ OpenModrinthDialog
  \/ QueryChange
  \/ HandleModrinthSortChange
  \/ HandleModrinthOpenSourceToggle
  \/ OpenInstallsSettled
  \/ SearchSettled
  \/ SelectInstance
  \/ LoadTabSettled

SpecSwitch == InitMods /\ [][NextSwitch]_vars

NextBusy ==
  \/ OpenModrinthDialog
  \/ CloseDialog
  \/ OpenInstallsSettled
  \/ SearchSettled
  \/ HandleModrinthInstall
  \/ HandleModrinthUninstall
  \/ OperationSettled
  \/ RefreshConfigCall
  \/ LoadConfigSettled

SpecBusy == InitMods /\ [][NextBusy]_vars

\* every command-channel call is eventually answered
SpecBusyFair ==
  /\ SpecBusy
  /\ \A t \in TaskIds : WF_vars(OperationSettledOf(t))
  /\ WF_vars(OpenInstallsSettled)
  /\ WF_vars(SearchSettled)
  /\ WF_vars(LoadConfigSettled)

\* ------------------------------------------------- specification: logs
\* The buffers start empty, or one of them starts one line short of its
\* limit (after 399 earlier appends), so that a few appends cross the limit.
BufferNames == {"launcher", "game"} \cup Instances

FilledAt(b, n) ==
  [launcher |-> IF b = "launcher" THEN Fill(n) ELSE <<>>,
   game |-> IF b = "game" THEN Fill(n) ELSE <<>>,
   instances |-> [i \in Instances |-> IF b = i THEN Fill(n) ELSE <<>>]]

InitLog ==
  /\ now = 0
  /\ fuel = MaxAppends
  /\ \/ /\ logs = EmptyLogs /\ logHist = EmptyLogs
        /\ legacy = EmptyLogs /\ legacyHist = EmptyLogs
     \/ \E b \in BufferNames :
          /\ logs = FilledAt(b, LogLimit - 1) /\ logHist = logs
          /\ legacy = EmptyLogs /\ legacyHist = EmptyLogs
     \/ \E b \in BufferNames :
          /\ logs = EmptyLogs /\ logHist = EmptyLogs
          /\ legacy = FilledAt(b, LegacyLogLimit - 1) /\ legacyHist = legacy
  /\ status = <<>>
  /\ InitSubsResolved
  /\ InitTracker
  /\ InitConfig
  /\ InitView("console")

NextLog ==
  \/ Tick
  \/ SetStatusCall
  \/ AppendInstanceLogCall
  \/ OnInstanceLog
  \/ ClearInstanceLogsCall
  \/ ClearLauncherLogsCall
  \/ LegacySetStatus
  \/ LegacyAppendGameLog
  \/ LegacyAppendInstanceLog
  \/ LegacyClearLogs

SpecLog == InitLog /\ [][NextLog]_vars

\* The buffers of the provider and of the legacy launcher.
Buffers(L) == {L.launcher, L.game} \cup {L.instances[i] : i \in Instances}

Min(a, b) == IF a < b THEN a ELSE b

\* buf holds the last min(n, limit) lines of hist, in order
IsLastOf(buf, hist, limit) ==
  /\ Len(buf) = Min(Len(hist), limit)
  /\ \A k \in 1..Len(buf) : buf[k] = hist[Len(hist) - Len(buf) + k]

\* C5: every log buffer (provider and legacy: launcher, game, each
\* instance) holds at most 400 lines, and they are exactly the last
\* min(n, 400) non-empty lines appended to it since it was last cleared,
\* in arrival order.
C5_BoundedLogs ==
  /\ IsLastOf(logs.launcher, logHist.launcher, 400)
  /\ IsLastOf(logs.game, logHist.game, 400)
  /\ \A i \in Instances : IsLastOf(logs.instances[i], logHist.instances[i], 400)
  /\ IsLastOf(legacy.launcher, legacyHist.launcher, 400)
  /\ IsLastOf(legacy.game, legacyHist.game, 400)
  /\ \A i \in Instances : IsLastOf(legacy.instances[i], legacyHist.instances[i], 400)

\* the provider's game log has evicted: more than 400 lines were appended
\* to it, and it holds the 400 newest
C5_Witness ==
  /\ Len(logHist.game) > 400
  /\ Len(logs.game) = 400
  /\ logs.game[400] # logs.game[399]

\* ------------------------------------------------ properties: busy keys
OperationsOn(key) ==
  {t \in TaskIds : tasks[t].type \in Operations /\ KeyOf(tasks[t]) = key}

\* the install_modrinth_project / uninstall_modrinth_project requests in flight
RequestsOn(key) == {t \in OperationsOn(key) : tasks[t].pc = "cmd"}

\* the install or uninstall t runs its finally block in this step
Ends(t) == tasks[t].type \in Operations /\ tasks'[t].type = "free"

\* C1: for every busy key, at most one install_modrinth_project or
\* uninstall_modrinth_project request is outstanding at any time, whatever
\* the interleaving of clicks, view resets and command responses.
C1_OneRequestPerKey == \A key \in BusyKeys : Cardinality(RequestsOn(key)) <= 1

\* C2: when every command-channel call is answered, every install or
\* uninstall ends, on success and on failure alike; the step that ends it
\* leaves its busy key absent, and every busy key that is present is
\* eventually absent again.
C2_BusyKeyReleased ==
  /\ \A t \in TaskIds : (tasks[t].type \in Operations) ~> (tasks[t].type = "free")
  /\ \A key \in BusyKeys : (modrinthBusy[key] # "") ~> (modrinthBusy[key] = "")
  /\ [][\A t \in TaskIds : Ends(t) => modrinthBusy'[KeyOf(tasks[t])] = ""]_vars

\* a failed install or uninstall has ended, and its key is absent
C2_Witness ==
  /\ lastEnd = "failed"
  /\ status = <<Rejection>>
  /\ \A key \in BusyKeys : modrinthBusy[key] = "" /\ OperationsOn(key) = {}

\* C3: the finally block of an install or uninstall removes no busy entry
\* that another, still outstanding operation inserted.
C3_EndRemovesOwnEntry ==
  [][\A t \in TaskIds :
       Ends(t) => busyOwner[KeyOf(tasks[t])] \in {0, t}]_vars

\* C4: a key is present in the busy map exactly while an install or
\* uninstall for its (category, project) pair is outstanding, and its tag
\* is the type of that operation.
C4_BusyMapInvariant ==
  \A key \in BusyKeys :
    /\ (modrinthBusy[key] # "") <=> (OperationsOn(key) # {})
    /\ \A t \in OperationsOn(key) : modrinthBusy[key] = tasks[t].type

\* ------------------------------------------------ properties: telemetry
\* a metrics call of an effect that has been cleaned up settles in this step
StaleSettles == \E i \in Instances : polls'[i].stale < polls[i].stale

\* C6: a get_instance_metrics response or failure that arrives after the
\* console tab was left or the viewed instance changed appends nothing to
\* the memory history and changes neither the memory usage nor the running
\* flag.
C6_StaleDiscarded ==
  [][StaleSettles => UNCHANGED <<memoryHistory, memoryUsage, isRunning>>]_vars

\* the view shows "b" and a call made for "a" has been discarded
C6_Witness ==
  /\ lastPoll = "discarded"
  /\ instanceId = "b"
  /\ polls["a"].stale > 0

TimerCount ==
  timers["a"].live + timers["a"].stale + timers["b"].live + timers["b"].stale

\* a metrics request for instance i is issued in this step
Issues(i) == polls'[i].live + polls'[i].stale > polls[i].live + polls[i].stale

\* C7: at most one telemetry timer runs; it runs only while the console
\* tab is active and polls the viewed instance; every metrics request is
\* issued by that timer for the viewed instance.
C7_SinglePollLoop ==
  /\ [](/\ TimerCount <= 1
        /\ \A i \in Instances :
             /\ timers[i].stale = 0
             /\ timers[i].live > 0 => (activeTab = "console" /\ i = instanceId)
        /\ activeTab = "console" => timers[instanceId].live = 1)
  /\ [][\A i \in Instances :
          Issues(i) => (/\ polls'[i].live > polls[i].live
                        /\ i = instanceId
                        /\ activeTab = "console")]_vars

\* the view moved from "a" to "b" while a call for "a" was in flight, and
\* the one timer polls "b"
C7_Witness ==
  /\ instanceId = "b"
  /\ timers["b"].live = 1
  /\ polls["a"].stale > 0
  /\ polls["b"].live > 0

\* --------------------------------------------------- properties: search
SearchesInFlight(kind) ==
  {t \in TaskIds : tasks[t].type = "search" /\ tasks[t].kind = kind}

\* C8: once every search of a kind has been answered, the results shown
\* for the kind are the answer to the search issued last, whatever the
\* order in which the answers arrived.
C8_LastSearchShown ==
  \A kind \in ModrinthKinds :
    (searchLog[kind].st = "ok" /\ SearchesInFlight(kind) = {})
      => modrinthState[kind].results = searchLog[kind].answer

\* ------------------------------------------ properties: progress tracker
TerminalTopics == {"install:done", "install:error", "launch:started", "launch:error"}

\* C9: after install:done, install:error, launch:started or launch:error
\* is handled the tracker is idle: installing false, no snapshot, no detail
\* lines, whatever it held before.
C9_TerminalReset ==
  lastEvent.topic \in TerminalTopics
    => (installing = FALSE /\ installProgress = None /\ installDetails = <<>>)

\* install:error was handled by a tracker that was installing and held
\* detail lines
C9_Witness ==
  /\ lastEvent.topic = "install:error"
  /\ lastEvent.wasInstalling
  /\ lastEvent.hadDetails > 0
  /\ installDetails = <<>>

\* --------------------------------------------- properties: subscriptions
\* C10: the cleanup invokes each unsubscribe handle it holds exactly once
\* and none that it does not hold; no handle is invoked before the cleanup
\* or more than once.
C10_TeardownOnce ==
  \A t \in Topics :
    /\ unlistenCalls[t] <= 1
    /\ unlistenCalls[t] = IF tornDown /\ t \in heldAtTeardown THEN 1 ELSE 0

\* the cleanup ran while some listen() calls had resolved and others had not
C10_Witness ==
  /\ tornDown
  /\ heldAtTeardown # {}
  /\ heldAtTeardown # Topics
  /\ \A t \in heldAtTeardown : unlistenCalls[t] = 1

\* C11: once the cleanup has run and every listen() call has resolved, no
\* topic is still subscribed, also not one whose listen() call resolved only
\* after the cleanup.
C11_NoSubscriptionOutlivesTeardown ==
  (tornDown /\ \A t \in Topics : handle[t]) => \A t \in Topics : ~subscribed[t]

\* C12: once install:done or install:error has been handled the tracker
\* stays idle until an install:progress event of stage prepare and current 0
\* arrives; a later install:progress event of any other stage does not make
\* it active again.
C12_IdleUntilPrepare ==
  [][(/\ lastEvent.topic \in {"install:done", "install:error"}
      /\ ~installing
      /\ installing')
       => (/\ installProgress'[1].stage = "prepare"
           /\ installProgress'[1].current = 0)]_vars

\* the install:progress payload handled last, if that was the last event
LastPayload == lastEvent.payload[1]

LastWasPrepare ==
  /\ lastEvent.topic = "install:progress"
  /\ LastPayload.stage = Some("prepare")
  /\ LastPayload.current = Some(0)

\* C13: after an install:progress event of stage prepare and current 0 the
\* tracker is active, the snapshot is made of that event's fields alone, and
\* the detail log holds nothing but that event's own detail line, if it
\* carries one.
C13_PrepareSupersedes ==
  LastWasPrepare =>
    /\ installing
    /\ installProgress =
         Some([stage |-> "prepare",
               message |-> IF LastPayload.message = None THEN "Working"
                           ELSE LastPayload.message[1],
               current |-> 0,
               total |-> LastPayload.total,
               detail |-> LastPayload.detail])
    /\ installDetails = IF LastPayload.detail \in {None, Some("")}
                        THEN <<>> ELSE <<LastPayload.detail[1]>>

\* a prepare event with a detail line reached a tracker that was installing
\* and held a detail line
C13_Witness ==
  /\ LastWasPrepare
  /\ lastEvent.wasInstalling
  /\ lastEvent.hadDetails > 0
  /\ installDetails = <<"d2">>

\* a tracker handler has acted in this step
TrackerStep == trackerVars' # trackerVars

\* the detail log after a handled install:progress event, from the log
\* before it and the event's payload
DetailsAfter(before, payload, after) ==
  LET kept == IF payload.stage = Some("prepare") /\ payload.current = Some(0)
              THEN <<>> ELSE before
  IN IF payload.detail \in {None, Some("")}
     THEN after = kept
     ELSE /\ after[Len(after)] = payload.detail[1]
          /\ IsLastOf(after, Append(kept, payload.detail[1]), DetailLimit)

\* C14: the detail log never holds more than 80 lines; an install:progress
\* event with a non-empty detail appends it as the newest line and, when the
\* log is full, evicts the oldest, the retained lines staying in arrival
\* order; an event without detail appends nothing.
C14_BoundedDetails ==
  /\ [](Len(installDetails) <= DetailLimit)
  /\ [][(TrackerStep /\ lastEvent'.topic = "install:progress")
          => DetailsAfter(installDetails, lastEvent'.payload[1], installDetails')]_vars

\* a detail line arrived at a full log: the oldest line is gone, the newest
\* is the event's
C14_Witness ==
  /\ lastEvent.topic = "install:progress"
  /\ lastEvent.hadDetails = DetailLimit
  /\ lastEvent.payload[1].detail = Some("d1")
  /\ Len(installDetails) = DetailLimit
  /\ installDetails[1] = "2"
  /\ installDetails[DetailLimit] = "d1"

\* a metrics call of the running effect settles in this step
LivePollSettles ==
  \E i \in Instances :
    /\ polls'[i].live < polls[i].live
    /\ polls'[i].stale = polls[i].stale

\* C15: a metrics poll that is answered without a numeric reading, or whose
\* request fails, leaves the memory history exactly as it was.
C15_MissKeepsHistory ==
  [][(LivePollSettles /\ lastPoll' \in {"null", "failed"})
       => memoryHistory' = memoryHistory]_vars

\* a poll without a reading has settled over a history that holds samples
C15_Witness ==
  /\ lastPoll \in {"null", "failed"}
  /\ memoryHistory # <<>>

\* C16: when a metrics request of the running effect fails, the instance is
\* marked not running, as it is for a response that carries no reading.
C16_FailureMarksNotRunning ==
  [][(LivePollSettles /\ lastPoll' = "failed") => ~isRunning']_vars

\* C17: the memory history is empty whenever the console tab is not the
\* active one (polling has stopped), and it is empty right after a different
\* instance has become the target.
C17_HistoryClearedOnStop ==
  /\ [](activeTab # "console" => memoryHistory = <<>>)
  /\ [][instanceId' # instanceId => memoryHistory' = <<>>]_vars

\* a search request of the kind is answered in this step
SearchAnswered(kind) ==
  \E t \in TaskIds :
    /\ tasks[t].type = "search"
    /\ tasks[t].kind = kind
    /\ tasks'[t].type = "free"

\* C18: when a search request fails, the kind's error is the failure text,
\* its loading flag is false, and its results are the ones it had before the
\* failure.
C18_FailureKeepsResults ==
  [][\A kind \in ModrinthKinds :
       (SearchAnswered(kind) /\ searchLog'[kind].last = "failed")
         => /\ modrinthState'[kind].error = Some("Error: rejected")
            /\ ~modrinthState'[kind].loading
            /\ modrinthState'[kind].results = modrinthState[kind].results]_vars

\* a search has failed over the results of an earlier successful one
C18_Witness ==
  \E kind \in ModrinthKinds :
    /\ searchLog[kind].last = "failed"
    /\ modrinthState[kind].results = <<"h1">>
    /\ modrinthState[kind].error = Some("Error: rejected")
    /\ ~modrinthState[kind].loading

\* C19: a kind's loading flag is true exactly while a search request for the
\* kind is outstanding, also when searches overlap or the view state is
\* reset while a search is in flight.
C19_LoadingTracksSearches ==
  \A kind \in ModrinthKinds :
    modrinthState[kind].loading <=> SearchesInFlight(kind) # {}

\* the filters of the kind are changed in this step through its open dialog
FilterMutated(kind) ==
  /\ modrinthState'[kind].filters # modrinthState[kind].filters
  /\ modrinthDialogKind' = kind

SearchTasks(T, kind) == {t \in TaskIds : T[t].type = "search" /\ T[t].kind = kind}

HasGroup(facets, group) == \E k \in 1..Len(facets) : facets[k] = group

\* C20: every filter mutation issues exactly one search request for the
\* kind, built from the filters stored for the kind after the mutation;
\* toggling category magic on, alone, yields a facet list that contains the
\* group [categories:magic].
C20_MutationSearches ==
  [][\A kind \in ModrinthKinds :
       FilterMutated(kind) =>
         LET stored == modrinthState'[kind].filters
             request == searchLog'[kind].request
         IN /\ Cardinality(SearchTasks(tasks', kind))
                 = Cardinality(SearchTasks(tasks, kind)) + 1
            /\ searchLog'[kind].st = "pending"
            /\ modrinthState'[kind].loading
            /\ request.extraFacets = buildModrinthFacets(kind, stored)
            /\ request.gameVersion =
                 IF stored.showAllVersions THEN "" ELSE InstanceVersion[instanceId]
            /\ (stored.categories = <<"magic">>
                  => HasGroup(request.extraFacets, << <<"categories", "magic">> >>))]_vars

\* category magic was toggled on after tech: the request pending for mods
\* carries both in one group
C20_Witness ==
  /\ modrinthState["mods"].filters.categories = <<"tech", "magic">>
  /\ searchLog["mods"].st = "pending"
  /\ HasGroup(searchLog["mods"].request.extraFacets,
              << <<"categories", "tech">>, <<"categories", "magic">> >>)

\* C30: installing is true exactly when a progress snapshot is present, and
\* while the tracker is idle the detail log is empty.
C30_TrackerConsistent ==
  /\ installing <=> installProgress # None
  /\ ~installing => installDetails = <<>>

\* a terminal event has ended an installation that had a snapshot and
\* detail lines
C30_Witness ==
  /\ lastEvent.topic \in TerminalTopics
  /\ lastEvent.wasInstalling
  /\ lastEvent.hadDetails > 0
  /\ ~installing
  /\ installProgress = None

\* C21: when the viewed instance changes, the search state of each of the
\* four kinds is the default one: empty query, no results, not loading, no
\* error, sort by downloads, and the default filters of the new instance.
C21_SwitchResetsSearch ==
  [][instanceId' # instanceId =>
       \A kind \in ModrinthKinds :
         /\ modrinthState'[kind].query = <<>>
         /\ modrinthState'[kind].results = <<>>
         /\ ~modrinthState'[kind].loading
         /\ modrinthState'[kind].error = None
         /\ modrinthState'[kind].sort = "downloads"
         /\ modrinthState'[kind].filters =
              [categories |-> <<>>,
               loaders |-> IF kind = "mods" /\ instanceId' = "a"
                           THEN <<"fabric">> ELSE <<>>,
               showAllVersions |-> FALSE,
               environments |-> [client |-> FALSE, server |-> FALSE],
               openSourceOnly |-> FALSE,
               hideInstalled |-> FALSE]]_vars

\* instance b is viewed with default search state while a search issued for
\* instance a (whose loading flag it had set) is still in flight
C21_Witness ==
  /\ instanceId = "b"
  /\ modrinthState["mods"] = DefaultModrinthState("mods", "b")
  /\ \E t \in TaskIds : tasks[t].type = "search" /\ tasks[t].instance = "a"

\* a task started while another instance was viewed ends in this step
ForeignAnswer(type) ==
  \E t \in TaskIds :
    /\ tasks[t].type = type
    /\ tasks'[t].type = "free"
    /\ tasks[t].instance # instanceId

\* C27: the answer to a request issued while another instance was viewed is
\* not written into the view state: the search state stays as it is when
\* such a search is answered.
C27_ForeignAnswerDropped ==
  [][ForeignAnswer("search") => modrinthState' = modrinthState]_vars

\* C28: a configuration refresh that leaves the same instance viewed resets
\* neither the search state, the busy map, the running flag nor the memory
\* history.
C28_RefreshKeepsView ==
  [][(configLoads' < configLoads /\ instanceId' = instanceId)
       => /\ modrinthState' = modrinthState
          /\ modrinthBusy' = modrinthBusy
          /\ isRunning' = isRunning
          /\ memoryHistory' = memoryHistory]_vars

\* an event of the topic has been handled in this step
Handled(topic) == lastEvent' # lastEvent /\ lastEvent'.topic = topic

\* C23: an instance:log event with a non-empty instance id and line appends
\* one entry to that instance's log and one entry with the same text to the
\* game log, the text being the line, prefixed with "[stderr] " exactly when
\* the stream is stderr; the other instance logs and the launcher log are
\* not changed.
C23_InstanceLogRouting ==
  [][LET event == lastEvent'.payload[1]
         id == event.instance_id
         text == IF event.stream = "stderr"
                 THEN <<"[stderr] ">> \o event.line ELSE event.line
         entry == <<now>> \o text
     IN (Handled("instance:log") /\ id # "" /\ event.line # <<>>)
          => /\ IsLastOf(logs'.instances[id], Append(logs.instances[id], entry), LogLimit)
             /\ IsLastOf(logs'.game, Append(logs.game, entry), LogLimit)
             /\ \A other \in Instances \ {id} :
                  logs'.instances[other] = logs.instances[other]
             /\ logs'.launcher = logs.launcher]_vars

\* a stderr line of instance a has been routed to its log and the game log
C23_Witness ==
  /\ lastEvent.topic = "instance:log"
  /\ lastEvent.payload[1].instance_id = "a"
  /\ lastEvent.payload[1].stream = "stderr"
  /\ lastEvent.payload[1].line # <<>>
  /\ logs.game # <<>>
  /\ logs.game[Len(logs.game)] = logs.instances["a"][Len(logs.instances["a"])]
  /\ logs.game[Len(logs.game)][2] = "[stderr] "

\* the logs, the status and the tracker are what they were
ProviderStateKept ==
  /\ logs' = logs
  /\ status' = status
  /\ installProgress' = installProgress
  /\ installing' = installing
  /\ installDetails' = installDetails

\* C24: an instance:log event without instance id or without line, and an
\* install:progress event without stage, message or current, change neither
\* the logs, the status, the snapshot, the installing flag nor the detail
\* log.
C24_MalformedDropped ==
  [][LET event == lastEvent'.payload[1]
     IN /\ (Handled("instance:log") /\ (event.instance_id = "" \/ event.line = <<>>))
             => ProviderStateKept
        /\ (Handled("install:progress")
              /\ (event.stage = None \/ event.message = None \/ event.current = None))
             => ProviderStateKept]_vars

\* one status line is emitted in this step: it is the status and the newest
\* line of the launcher log
OneStatusLine ==
  /\ Len(logHist'.launcher) = Len(logHist.launcher) + 1
  /\ logs'.launcher # <<>>
  /\ logs'.launcher[Len(logs'.launcher)] = <<now>> \o status'

\* C25: every failed command-channel call produces exactly one status line,
\* appended to the launcher log; here for a failed catalog search and a
\* failed metrics poll of the running effect.
C25_FailureReported ==
  [][/\ (\E kind \in ModrinthKinds :
           SearchAnswered(kind) /\ searchLog'[kind].last = "failed") => OneStatusLine
     /\ (LivePollSettles /\ lastPoll' = "failed") => OneStatusLine]_vars

\* the number of filter dimensions that are not empty, of the four that
\* make facet groups
Dimensions(kind, filters) ==
  (IF filters.categories # <<>> THEN 1 ELSE 0)
  + (IF kind = "mods" /\ filters.loaders # <<>> THEN 1 ELSE 0)
  + (IF filters.environments.client \/ filters.environments.server THEN 1 ELSE 0)
  + (IF filters.openSourceOnly THEN 1 ELSE 0)

\* C26: the facet list sent with a search holds exactly one group for each
\* non-empty filter dimension (categories; loaders, for mods only; the
\* client/server environment; open source only), the categories group being
\* the first when there is one.
C26_OneGroupPerDimension ==
  [][\A kind \in ModrinthKinds :
       FilterMutated(kind) =>
         LET stored == modrinthState'[kind].filters
             facets == searchLog'[kind].request.extraFacets
         IN /\ Len(facets) = Dimensions(kind, stored)
            /\ stored.categories # <<>>
                 => facets[1] = [k \in 1..Len(stored.categories) |->
                                   <<"categories", stored.categories[k]>>]]_vars

\* the complete_microsoft_login calls that have not settled
ExchangesInFlight == {t \in TaskIds : tasks[t].type = "login" /\ tasks[t].pc = "exchange"}

\* C22: at most one complete_microsoft_login call is outstanding at any
\* time, also when a second microsoft:code event arrives before the first
\* call has completed.
C22_SingleExchange == Cardinality(ExchangesInFlight) <= 1

\* C29: a launch:ended event whose instance id is not the one viewed changes
\* neither the running flag, the memory usage, the memory history nor any
\* log, and emits no status; an event whose id is the one viewed, once the
\* listener is registered, marks the instance not running, empties the
\* history and appends one "Instance closed." line to that instance's log.
C29_EndedOnlyForViewed ==
  [][LET endedId == lastEvent'.payload[1].instance_id
     IN /\ (Handled("launch:ended") /\ endedId # instanceId)
             => /\ isRunning' = isRunning
                /\ memoryUsage' = memoryUsage
                /\ memoryHistory' = memoryHistory
                /\ logs' = logs
                /\ status' = status
        /\ (Handled("launch:ended") /\ endedId = instanceId
              /\ endedSubs[instanceId].cur = "held")
             => /\ ~isRunning'
                /\ memoryHistory' = <<>>
                /\ logs'.instances[endedId] =
                     Append(logs.instances[endedId], <<now, "Instance closed.">>)]_vars
====
